---------------------------- MODULE Spec2Model ----------------------------
(*************************************************************************)
(* A model of aten/src/ATen/core/typeid.h: TypeIdentifier (the numeric   *)
(* id of a C++ type), detail::TypeMetaData (the per-type record of size, *)
(* constructor, copy, destructor, id and name), TypeMetaDataRegistry<T>  *)
(* (the static data member that holds the record of T) and TypeMeta (the *)
(* handle that points to one record).                                    *)
(*                                                                       *)
(* Types are named by strings.  The header is a template library: the    *)
(* program's threads are its callers, and the dynamic initializers of    *)
(* the registry's static data members run in one further process, the    *)
(* loader.                                                               *)
(*************************************************************************)
EXTENDS Integers, Sequences, FiniteSets, TLC

-----------------------------------------------------------------------------
(* Bounds of the model *)

\* caller threads
NumThreads == 2

\* elements of the arrays a caller hands to the functions of a record
MaxElems == 2

\* types registered with CAFFE_KNOWN_TYPE by the program
NumDynTypes == 2

-----------------------------------------------------------------------------
(* The types *)

\* CAFFE_PREALLOCATED_KNOWN_TYPE(PreallocatedId, T), typeid.h:442-474
\* (CAFFE2_UNIQUE_LONG_TYPEMETA is not defined: ids 25 and 26 are unused)
PreallocatedKnownTypes ==
    { <<0, "uint8_t">>, <<1, "int8_t">>, <<2, "int16_t">>, <<3, "int">>,
      <<4, "int64_t">>, <<5, "at::Half">>, <<6, "float">>, <<7, "double">>,
      <<8, "at::ComplexHalf">>, <<9, "std::complex<float>">>,
      <<10, "std::complex<double>">>,
      <<12, "Tensor">>, <<13, "std::string">>, <<14, "bool">>,
      <<15, "uint16_t">>, <<16, "char">>,
      <<17, "std::unique_ptr<std::mutex>">>,
      <<18, "std::unique_ptr<std::atomic<bool>>">>,
      <<19, "std::vector<int32_t>">>, <<20, "std::vector<int64_t>">>,
      <<21, "std::vector<unsigned long>">>,
      <<22, "bool*">>, <<23, "char*">>, <<24, "int*">>,
      <<27, "_CaffeHighestPreallocatedTypeId">> }

PreallocatedTypes == { p[2] : p \in PreallocatedKnownTypes }

\* the classes the program registers with CAFFE_KNOWN_TYPE(T)
KnownTypeNames == << "DynA", "DynB", "DynC", "DynD" >>

DynTypes == { KnownTypeNames[i] : i \in 1..NumDynTypes }

Types == PreallocatedTypes \cup DynTypes

\* the id no type has yet
NoId == -1

\* TypeIdentifier::uninitialized()
UninitializedId == 11

\* the largest value of TypeIdentifier's underlying type, uint16_t
MaxUnderlyingId == 65535

\* a numbering that does not leave 11 out
PreallocatedIdNoGap(t) ==
    LET i == (CHOOSE p \in PreallocatedKnownTypes : p[2] = t)[1]
    IN  IF i > 11 THEN i - 1 ELSE i

\* the body of TypeIdentifier::Get<T>() that CAFFE_PREALLOCATED_KNOWN_TYPE
\* defines: return TypeIdentifier(PreallocatedId)
PreallocatedId(t) == (CHOOSE p \in PreallocatedKnownTypes : p[2] = t)[1]

\* a marker type registered below the types that follow the scalar types
HighestPreallocatedIdLow == PreallocatedId("std::complex<double>")

\* TypeMeta::Id<_CaffeHighestPreallocatedTypeId>()
HighestPreallocatedId == PreallocatedId("_CaffeHighestPreallocatedTypeId")

-----------------------------------------------------------------------------
(* The traits of the types, as the templates of the header read them *)

\* the types whose TypeMetaDataRegistry<T>::data the program instantiates
RecTypes == { "uint8_t", "DynA", "DynB" }

\* std::is_fundamental<T>::value || std::is_pointer<T>::value
IsFundamentalOrPointer(t) ==
    t \in { "uint8_t", "int8_t", "int16_t", "int", "int64_t", "float",
            "double", "bool", "uint16_t", "char", "bool*", "char*", "int*" }

\* std::is_default_constructible<T>::value; of the program's classes,
\* DynA and DynC have a default constructor
IsDefaultConstructible(t) == t \notin { "DynB", "DynD" }

\* std::is_trivially_default_constructible<T>::value: `new (p) T` runs no
\* code for such a T; of the program's classes, DynA is a plain struct
IsTriviallyDefaultConstructible(t) ==
    IsFundamentalOrPointer(t) \/ t \in { "DynA", "at::Half", "at::ComplexHalf" }

\* std::is_copy_assignable<T>::value; of the program's classes, DynA and
\* DynD can be assigned
IsCopyAssignable(t) ==
    t \notin { "std::unique_ptr<std::mutex>",
               "std::unique_ptr<std::atomic<bool>>", "DynB", "DynC" }

\* sizeof(T), on an LP64 target with libstdc++
SizeOf(t) ==
    CASE t \in { "uint8_t", "int8_t", "bool", "char",
                 "_CaffeHighestPreallocatedTypeId" } -> 1
      [] t \in { "int16_t", "uint16_t", "at::Half" } -> 2
      [] t \in { "int", "float", "at::ComplexHalf" } -> 4
      [] t \in { "int64_t", "double", "std::complex<float>", "bool*",
                 "char*", "int*", "std::unique_ptr<std::mutex>",
                 "std::unique_ptr<std::atomic<bool>>", "Tensor" } -> 8
      [] t = "std::complex<double>" -> 16
      [] t \in { "std::vector<int32_t>", "std::vector<int64_t>",
                 "std::vector<unsigned long>" } -> 24
      [] t = "std::string" -> 32
      [] t = "DynA" -> 12
      [] t = "DynB" -> 40
      [] OTHER -> 48

\* _TypeName<T>(): the macros return #T
TypeName(t) == t

\* a function pointer: a function template and the T it is instantiated for
Fn(f, t) == [fn |-> f, T |-> t]

\* nullptr, as a function pointer
NullFn == [fn |-> "nullptr", T |-> "none"]

\* a _PickCtor<T>() that takes every type for default-constructible
PickCtorAlways(t) == Fn("_Ctor", t)

\* _PickCtor<T>()
PickCtor(t) ==
    IF IsDefaultConstructible(t) THEN Fn("_Ctor", t)
    ELSE Fn("_CtorNotDefault", t)

\* _PickCopy<T>()
PickCopy(t) ==
    IF IsCopyAssignable(t) THEN Fn("_Copy", t)
    ELSE Fn("_CopyNotAllowed", t)

\* the members of detail::TypeMetaData
Fields == { "itemsize_", "ctor_", "copy_", "dtor_", "id_", "name_" }

\* a TypeMetaData of static storage duration before its dynamic
\* initialization: zero-initialized
ZeroData ==
    [ itemsize_ |-> 0, ctor_ |-> NullFn, copy_ |-> NullFn, dtor_ |-> NullFn,
      id_ |-> 0, name_ |-> "nullptr" ]

\* TypeMeta::uninitialized_
uninitialized_ ==
    [ itemsize_ |-> 0, ctor_ |-> NullFn, copy_ |-> NullFn, dtor_ |-> NullFn,
      id_ |-> UninitializedId, name_ |-> "nullptr (uninitialized)" ]

\* an initializer that takes the path of the other types for every type
TypeMetaDataGeneral(t, id) ==
    [ itemsize_ |-> SizeOf(t), ctor_ |-> PickCtor(t), copy_ |-> PickCopy(t),
      dtor_ |-> Fn("_Dtor", t), id_ |-> id, name_ |-> TypeName(t) ]

\* the initializer of TypeMetaDataRegistry<T>::data, with id the value of
\* TypeIdentifier::Get<T>(): the specialization for fundamental and pointer
\* types, and the one for all other types
TypeMetaData(t, id) ==
    IF IsFundamentalOrPointer(t)
      THEN [ itemsize_ |-> SizeOf(t), ctor_ |-> NullFn, copy_ |-> NullFn,
             dtor_ |-> NullFn, id_ |-> id, name_ |-> TypeName(t) ]
      ELSE [ itemsize_ |-> SizeOf(t), ctor_ |-> PickCtor(t),
             copy_ |-> PickCopy(t), dtor_ |-> Fn("_Dtor", t), id_ |-> id,
             name_ |-> TypeName(t) ]

-----------------------------------------------------------------------------
(* The processes *)

Loader == 0

Threads == 1..NumThreads

Procs == {Loader} \cup Threads

VARIABLES
    counter,     \* the atomic counter of TypeIdentifier::createTypeId
    aborted,     \* the process is gone: createTypeId ran out of ids, or
                 \* a null function pointer was called
    type_id,     \* per CAFFE_KNOWN_TYPE type: the function-local static
                 \* `type_id` of Get<T>() and its initialization guard
    pc,          \* per process: where it is
    arg,         \* per process: the type T of the call it is in (or made last)
    new_value,   \* per process: what createTypeId returned to it
    ret,         \* per process: what its last Get<T>() returned
    lastGet,     \* the last Get<T>() of a preallocated type: [type, id]
    created,     \* history: per type, the number of createTypeId calls
    firstGet,    \* history: per type, what the first Get<T>() returned
    init,        \* per type: how far the dynamic initialization of
                 \* TypeMetaDataRegistry<T>::data is
    data,        \* per type: TypeMetaDataRegistry<T>::data as it is in memory
    handle,      \* per thread: data_ of its TypeMeta object
    made,        \* history: per thread, the T of the Make<T>() it came from
    src,         \* the caller's source elements, src[1] the one at index 0
    dst,         \* the caller's destination elements
    call,        \* the call of a function of a record the caller is in, or
                 \* made last: the member read, the function, the record,
                 \* n, the loop index i, how it ended, whether the record
                 \* was initialized and the elements as they were when it
                 \* was called
    cmp          \* three TypeIdentifier values and, once the program has
                 \* compared them, what operator< returned for each pair

idVars == << counter, aborted, type_id, pc, arg, new_value, ret, lastGet,
             created, firstGet >>

idVarsButPc == << counter, aborted, type_id, arg, new_value, ret, lastGet,
                 created, firstGet >>

recVars == << init, data, handle, made >>

opVars == << src, dst, call >>

ordVars == << cmp >>

vars == << idVars, recVars, opVars, ordVars >>

-----------------------------------------------------------------------------
(* TypeIdentifier::Get<T>() *)

\* nothing runs once the process is gone
Running == ~aborted

\* where a process is between two calls
Ready(p) == IF p = Loader THEN "init_get" ELSE "idle"

\* where a process goes when Get<T>() returns to it
Returned(p) == IF p = Loader THEN "init_store" ELSE "idle"

\* one static shared by every Get<T>()
StaticShared(t) == KnownTypeNames[1]

\* the function-local static `type_id` that Get<T>() reads and initializes:
\* each specialization that CAFFE_KNOWN_TYPE(T) defines has its own
StaticOf(t) == t

\* a build without the `static` of `static const TypeIdentifier type_id`
GuardNoStatic(t) == "uninit"

\* the state of the guard of the function-local static `type_id` of Get<T>()
Guard(t) == type_id[StaticOf(t)].guard

\* the value of the static `type_id` of Get<T>()
Cached(t) == type_id[StaticOf(t)].id

\* createTypeId forgetting to advance its counter
CounterKept(c) == c

\* the counter after one fetch-and-increment of createTypeId
CounterAfter(c) == c + 1

\* history: the first value Get<T>() returned
NoteFirst(t, v) ==
    firstGet' = IF t \in DOMAIN firstGet /\ firstGet[t] = NoId
                  THEN [firstGet EXCEPT ![t] = v]
                ELSE firstGet

\* a thread keeps the result of its last call alone: a call of Get<T>()
\* lets go of the TypeMeta it had
DropTypeMeta(p) ==
    /\ handle' = IF p \in Threads THEN [handle EXCEPT ![p] = "none"] ELSE handle
    /\ made' = IF p \in Threads THEN [made EXCEPT ![p] = "none"] ELSE made

\* Get<T>() of a preallocated type, called by a thread: a constant
GetPreallocated(p, t) ==
    /\ Running
    /\ UNCHANGED ordVars
    /\ UNCHANGED opVars
    /\ UNCHANGED recVars
    /\ p \in Threads
    /\ pc[p] = "idle"
    /\ t \in PreallocatedTypes
    /\ lastGet' = [type |-> t, id |-> PreallocatedId(t)]
    /\ NoteFirst(t, PreallocatedId(t))
    /\ UNCHANGED << counter, aborted, type_id, pc, arg, new_value, ret,
                    created >>

\* Get<T>() of a CAFFE_KNOWN_TYPE type whose static is initialized
GetCached(p, t) ==
    /\ Running
    /\ UNCHANGED ordVars
    /\ UNCHANGED opVars
    /\ DropTypeMeta(p)
    /\ UNCHANGED << init, data >>
    /\ pc[p] = Ready(p)
    /\ p = Loader => arg[p] = t
    /\ t \in DynTypes
    /\ Guard(t) = "done"
    /\ arg' = [arg EXCEPT ![p] = t]
    /\ ret' = [ret EXCEPT ![p] = Cached(t)]
    /\ pc' = [pc EXCEPT ![p] = Returned(p)]
    /\ NoteFirst(t, Cached(t))
    /\ UNCHANGED << counter, aborted, type_id, new_value, lastGet, created >>

\* Get<T>(): the first caller takes the guard and goes on to createTypeId
GetFirst(p, t) ==
    /\ Running
    /\ UNCHANGED ordVars
    /\ UNCHANGED opVars
    /\ DropTypeMeta(p)
    /\ UNCHANGED << init, data >>
    /\ pc[p] = Ready(p)
    /\ p = Loader => arg[p] = t
    /\ t \in DynTypes
    /\ Guard(t) = "uninit"
    /\ type_id' = [type_id EXCEPT ![StaticOf(t)].guard = "busy"]
    /\ arg' = [arg EXCEPT ![p] = t]
    /\ pc' = [pc EXCEPT ![p] = "create"]
    /\ UNCHANGED << counter, aborted, new_value, ret, lastGet, created,
                    firstGet >>

\* Get<T>(): a caller that finds the initialization under way waits
GetBlocked(p, t) ==
    /\ Running
    /\ UNCHANGED ordVars
    /\ UNCHANGED opVars
    /\ DropTypeMeta(p)
    /\ UNCHANGED << init, data >>
    /\ pc[p] = Ready(p)
    /\ p = Loader => arg[p] = t
    /\ t \in DynTypes
    /\ Guard(t) = "busy"
    /\ arg' = [arg EXCEPT ![p] = t]
    /\ pc' = [pc EXCEPT ![p] = "wait"]
    /\ UNCHANGED << counter, aborted, type_id, new_value, ret, lastGet,
                    created, firstGet >>

\* TypeIdentifier::createTypeId(): one atomic fetch-and-increment of the
\* counter; out of ids, it is fatal
\* a check that never finds the ids exhausted
ExhaustedNever(c) == FALSE

\* the counter has left the range of TypeIdentifier::underlying_type
Exhausted(c) == c > MaxUnderlyingId

\* the conversion of a counter value to TypeIdentifier::underlying_type
ToUnderlying(c) == c % (MaxUnderlyingId + 1)

createTypeId(p) ==
    /\ Running
    /\ UNCHANGED ordVars
    /\ UNCHANGED opVars
    /\ UNCHANGED recVars
    /\ pc[p] = "create"
    /\ IF Exhausted(counter)
         THEN /\ aborted' = TRUE
              /\ UNCHANGED << counter, type_id, pc, arg, new_value, ret,
                              lastGet, created, firstGet >>
         ELSE /\ new_value' = [new_value EXCEPT ![p] = ToUnderlying(counter)]
              /\ counter' = CounterAfter(counter)
              /\ created' = [created EXCEPT ![arg[p]] = @ + 1]
              /\ pc' = [pc EXCEPT ![p] = "publish"]
              /\ UNCHANGED << aborted, type_id, arg, ret, lastGet, firstGet >>

\* Get<T>(): the static is initialized with what createTypeId returned,
\* the guard is released and the value returned
\* a static left under initialization for good
PublishedBusy(v) == [guard |-> "busy", id |-> v]

\* the static type_id once its initializer has returned v: initialized
Published(v) == [guard |-> "done", id |-> v]

GetPublish(p) ==
    /\ Running
    /\ UNCHANGED ordVars
    /\ UNCHANGED opVars
    /\ UNCHANGED recVars
    /\ pc[p] = "publish"
    /\ type_id' = [type_id EXCEPT ![StaticOf(arg[p])] = Published(new_value[p])]
    /\ ret' = [ret EXCEPT ![p] = new_value[p]]
    /\ new_value' = [new_value EXCEPT ![p] = NoId]
    /\ pc' = [pc EXCEPT ![p] = Returned(p)]
    /\ NoteFirst(arg[p], new_value[p])
    /\ UNCHANGED << counter, aborted, arg, lastGet, created >>

\* Get<T>(): a waiting caller goes on once the static is initialized
GetWake(p) ==
    /\ Running
    /\ UNCHANGED ordVars
    /\ UNCHANGED opVars
    /\ UNCHANGED recVars
    /\ pc[p] = "wait"
    /\ Guard(arg[p]) = "done"
    /\ ret' = [ret EXCEPT ![p] = Cached(arg[p])]
    /\ pc' = [pc EXCEPT ![p] = Returned(p)]
    /\ NoteFirst(arg[p], Cached(arg[p]))
    /\ UNCHANGED << counter, aborted, type_id, arg, new_value, lastGet,
                    created >>

-----------------------------------------------------------------------------
(* TypeMetaDataRegistry<T>::data and TypeMeta *)

\* a Make<T>() that returns the dummy TypeMeta
MakeDummy(t) == "uninitialized_"

\* TypeMeta::Make<T>(): TypeMeta(&detail::TypeMetaDataRegistry<T>::data);
\* a record is named by the type it is the record of, Make<T>() reads
\* nothing and waits for nothing
Make(t) == t

\* a TypeMeta() that points to the record of uint8_t
DummyIsRecord == "uint8_t"

\* TypeMeta::TypeMeta(): data_(&uninitialized_)
DefaultData == "uninitialized_"

\* an id of the dummy TypeMeta that is zero, like that of uint8_t
SentinelZeroId(f) == IF f = "id_" THEN 0 ELSE uninitialized_[f]

\* a member of TypeMeta::uninitialized_
SentinelField(f) == uninitialized_[f]

\* what a read of member f through data_ = h can return.  While the
\* dynamic initializer of the record is storing to it, a read races with
\* the stores and returns the member as it was (zero) or as it will be;
\* the id is there to store once Get<T>() has returned to the initializer
Deref(h, f) ==
    IF h = "uninitialized_" THEN { SentinelField(f) }
    ELSE IF init[h] = "building"
      THEN { ZeroData[f] } \cup
           ( IF f # "id_" THEN { TypeMetaData(h, 0)[f] }
             ELSE IF pc[Loader] = "init_store" THEN { ret[Loader] }
             ELSE {} )
    ELSE { data[h][f] }

\* the accessors of a TypeMeta whose data_ is h: each returns a member of
\* *data_ (the values a call can return now)
id(h) == Deref(h, "id_")

itemsize(h) == Deref(h, "itemsize_")

ctor(h) == Deref(h, "ctor_")

copy(h) == Deref(h, "copy_")

dtor(h) == Deref(h, "dtor_")

name(h) == Deref(h, "name_")

\* operator==(const TypeMeta&, const TypeMeta&): lhs.data_ == rhs.data_
TypeMetaEq(lhs, rhs) == lhs = rhs

\* a Match<T>() that is true of every TypeMeta
MatchAny(h, t) == TRUE

\* TypeMeta::Match<T>(): data_ == Make<T>().data_
Match(h, t) == h = Make(t)

\* an initializer that may run again
InitializerMayRerun(t) == TRUE

\* the dynamic initializer of an object of static storage duration runs
\* once: it has not run for the record of t
InitializerPending(t) == init[t] = "zero"

\* the dynamic initializer of TypeMetaDataRegistry<T>::data starts: the
\* loader runs the initializers one after the other, in no fixed order
StaticInitBegin(t) ==
    /\ Running
    /\ UNCHANGED ordVars
    /\ UNCHANGED opVars
    /\ pc[Loader] = "idle"
    /\ t \in DOMAIN init
    /\ InitializerPending(t)
    /\ init' = [init EXCEPT ![t] = "building"]
    /\ arg' = [arg EXCEPT ![Loader] = t]
    /\ pc' = [pc EXCEPT ![Loader] = "init_get"]
    /\ UNCHANGED << counter, aborted, type_id, new_value, ret, lastGet,
                    created, firstGet, data, handle, made >>

\* the initializer's call of Get<T>() for a preallocated type
InitGetPreallocated ==
    /\ Running
    /\ UNCHANGED ordVars
    /\ UNCHANGED opVars
    /\ pc[Loader] = "init_get"
    /\ arg[Loader] \in PreallocatedTypes
    /\ ret' = [ret EXCEPT ![Loader] = PreallocatedId(arg[Loader])]
    /\ pc' = [pc EXCEPT ![Loader] = "init_store"]
    /\ UNCHANGED << counter, aborted, type_id, arg, new_value, lastGet,
                    created, firstGet, recVars >>

\* the initializer is done: the record holds
\* TypeMetaData {sizeof(T), ..., TypeIdentifier::Get<T>(), _TypeName<T>()}
StaticInitEnd ==
    /\ Running
    /\ UNCHANGED ordVars
    /\ UNCHANGED opVars
    /\ pc[Loader] = "init_store"
    /\ data' = [data EXCEPT ![arg[Loader]] =
                   TypeMetaData(arg[Loader], ret[Loader])]
    /\ init' = [init EXCEPT ![arg[Loader]] = "built"]
    /\ pc' = [pc EXCEPT ![Loader] = "idle"]
    /\ UNCHANGED << idVarsButPc, handle, made >>

\* a thread calls TypeMeta::Make<T>()
CallMake(p, t) ==
    /\ Running
    /\ UNCHANGED ordVars
    /\ UNCHANGED opVars
    /\ pc[p] = "idle"
    /\ handle' = [handle EXCEPT ![p] = Make(t)]
    /\ made' = [made EXCEPT ![p] = t]
    /\ arg' = [arg EXCEPT ![p] = "none"]
    /\ ret' = [ret EXCEPT ![p] = NoId]
    /\ UNCHANGED << counter, aborted, type_id, pc, new_value, lastGet,
                    created, firstGet, init, data >>

\* a thread creates a dummy TypeMeta
CallTypeMeta(p) ==
    /\ Running
    /\ UNCHANGED ordVars
    /\ UNCHANGED opVars
    /\ pc[p] = "idle"
    /\ handle' = [handle EXCEPT ![p] = DefaultData]
    /\ made' = [made EXCEPT ![p] = "none"]
    /\ arg' = [arg EXCEPT ![p] = "none"]
    /\ ret' = [ret EXCEPT ![p] = NoId]
    /\ UNCHANGED << counter, aborted, type_id, pc, new_value, lastGet,
                    created, firstGet, init, data >>

-----------------------------------------------------------------------------
(* The functions of a record: copy *)

\* the values of the source elements
ElemValues == { 1, 2 }

\* no call yet
NoCall ==
    [ member |-> "none", fn |-> NullFn, of |-> "none", n |-> 0, i |-> 0,
      outcome |-> "none", built |-> FALSE, src0 |-> << >>, dst0 |-> << >> ]

\* the type whose records the functions of the caller work on
Caller == 1

\* a call of function f, read from member m of the record `of`, for k
\* elements
NewCall(m, f, of, k, how) ==
    [ member |-> m, fn |-> f, of |-> of, n |-> k, i |-> 0, outcome |-> how,
      built |-> (of \in DOMAIN init /\ init[of] = "built"),
      src0 |-> src, dst0 |-> dst ]

\* an assignment that always reads the first source element
AssignFirst(d, s, i) == [d EXCEPT ![i + 1] = s[1]]

\* typed_dst[i] = typed_src[i]: the destination after the assignment
Assign(d, s, i) == [d EXCEPT ![i + 1] = s[i + 1]]

\* the caller reads copy() of its TypeMeta, finds nullptr and calls it: the
\* behaviour is undefined, the build's outcome is a crash of the process
CopyNull(p, k) ==
    /\ Running
    /\ UNCHANGED ordVars
    /\ pc[p] = "idle"
    /\ handle[p] # "none"
    /\ NullFn \in copy(handle[p])
    /\ call' = NewCall("copy_", NullFn, handle[p], k, "crashed")
    /\ aborted' = TRUE
    /\ UNCHANGED << counter, type_id, pc, arg, new_value, ret, lastGet,
                    created, firstGet, recVars, src, dst >>

\* the caller reads copy() and calls it: _CopyNotAllowed<T>(src, dst, n)
\* throws through _ThrowRuntimeTypeLogicError, its message names T
CopyNotAllowed(p, k) ==
    /\ Running
    /\ UNCHANGED ordVars
    /\ pc[p] = "idle"
    /\ handle[p] # "none"
    /\ \E f \in copy(handle[p]) :
          /\ f.fn = "_CopyNotAllowed"
          /\ call' = NewCall("copy_", f, handle[p], k, "thrown")
    /\ UNCHANGED << idVars, recVars, src, dst >>

\* the caller reads copy() and calls it: _Copy<T>(src, dst, n) starts
CopyEnter(p, k) ==
    /\ Running
    /\ UNCHANGED ordVars
    /\ pc[p] = "idle"
    /\ handle[p] # "none"
    /\ \E f \in copy(handle[p]) :
          /\ f.fn = "_Copy"
          /\ call' = NewCall("copy_", f, handle[p], k, "running")
    /\ pc' = [pc EXCEPT ![p] = "copy"]
    /\ UNCHANGED << idVarsButPc, recVars, src, dst >>

\* _Copy<T>: one turn of for (size_t i = 0; i < n; ++i)
CopyLoop(p) ==
    /\ Running
    /\ UNCHANGED ordVars
    /\ pc[p] = "copy"
    /\ call.i < call.n
    /\ dst' = Assign(dst, src, call.i)
    /\ call' = [call EXCEPT !.i = @ + 1]
    /\ UNCHANGED << idVars, recVars, src >>

\* _Copy<T>: the loop is over, the function returns
CopyReturn(p) ==
    /\ Running
    /\ UNCHANGED ordVars
    /\ pc[p] = "copy"
    /\ ~(call.i < call.n)
    /\ call' = [call EXCEPT !.outcome = "returned"]
    /\ pc' = [pc EXCEPT ![p] = "idle"]
    /\ UNCHANGED << idVarsButPc, recVars, src, dst >>

-----------------------------------------------------------------------------
(* The functions of a record: ctor and dtor.  The caller hands its
   destination array as ptr *)

\* storage that the caller has allocated and not written to
RawStorage == [j \in 1..MaxElems |-> 0]

\* an element that a default constructor with a body, or a
\* value-initialization, has given its initial value
ValueInitialized == 3

\* an element whose destructor has run
Destroyed == 4

\* a placement new that constructs the element before the one it is given
PlacementNewBefore(d, t, i) ==
    IF i = 0 THEN { d } ELSE { [d EXCEPT ![i] = ValueInitialized] }

\* new (typed_ptr + i) T: the arrays ptr can be after it.  T is
\* default-initialized: its default constructor runs, and where that is
\* trivial nothing is stored and the element's value is indeterminate:
\* what the storage held, which may happen to be the initial value
PlacementNew(d, t, i) ==
    IF IsTriviallyDefaultConstructible(t)
      THEN { [d EXCEPT ![i + 1] = v] : v \in { d[i + 1], ValueInitialized } }
      ELSE { [d EXCEPT ![i + 1] = ValueInitialized] }

\* _Ctor<T>(ptr, n): the arrays ptr can be after turns i..n-1 of
\* for (size_t i = 0; i < n; ++i)
RECURSIVE CtorFrom(_, _, _, _)
CtorFrom(d, t, i, n) ==
    IF i < n
      THEN UNION { CtorFrom(e, t, i + 1, n) : e \in PlacementNew(d, t, i) }
      ELSE { d }

\* _Dtor<T>(ptr, n): ptr after turns i..n-1 of the loop of
\* typed_ptr[i].~T()
RECURSIVE DtorFrom(_, _, _)
DtorFrom(d, i, n) ==
    IF i < n THEN DtorFrom([d EXCEPT ![i + 1] = Destroyed], i + 1, n) ELSE d

\* the caller reads member m of its TypeMeta, finds nullptr and calls it:
\* the behaviour is undefined, the build's outcome is a crash
CallNull(p, m, k) ==
    /\ Running
    /\ UNCHANGED ordVars
    /\ pc[p] = "idle"
    /\ handle[p] # "none"
    /\ NullFn \in Deref(handle[p], m)
    /\ call' = NewCall(m, NullFn, handle[p], k, "crashed")
    /\ aborted' = TRUE
    /\ UNCHANGED << counter, type_id, pc, arg, new_value, ret, lastGet,
                    created, firstGet, recVars, src, dst >>

\* the caller reads ctor() and calls it: _CtorNotDefault<T>(ptr, n) throws
\* through _ThrowRuntimeTypeLogicError, its message names T
CtorNotDefault(p, k) ==
    /\ Running
    /\ UNCHANGED ordVars
    /\ pc[p] = "idle"
    /\ handle[p] # "none"
    /\ \E f \in ctor(handle[p]) :
          /\ f.fn = "_CtorNotDefault"
          /\ call' = NewCall("ctor_", f, handle[p], k, "thrown")
    /\ UNCHANGED << idVars, recVars, src, dst >>

\* the caller takes fresh storage for its array, reads ctor() and calls
\* it: _Ctor<T>(ptr, n) runs and returns
Ctor(p, k) ==
    /\ Running
    /\ UNCHANGED ordVars
    /\ pc[p] = "idle"
    /\ handle[p] # "none"
    /\ \E f \in ctor(handle[p]) :
          /\ f.fn = "_Ctor"
          /\ call' = [NewCall("ctor_", f, handle[p], k, "returned")
                         EXCEPT !.i = k, !.dst0 = RawStorage]
          /\ dst' \in CtorFrom(RawStorage, f.T, 0, k)
    /\ UNCHANGED << idVars, recVars, src >>

\* the caller reads dtor() and calls it: _Dtor<T>(ptr, n) runs and returns
Dtor(p, k) ==
    /\ Running
    /\ UNCHANGED ordVars
    /\ pc[p] = "idle"
    /\ handle[p] # "none"
    /\ \E f \in dtor(handle[p]) :
          /\ f.fn = "_Dtor"
          /\ call' = [NewCall("dtor_", f, handle[p], k, "returned")
                         EXCEPT !.i = k]
          /\ dst' = DtorFrom(dst, 0, k)
    /\ UNCHANGED << idVars, recVars, src >>

-----------------------------------------------------------------------------
(* TypeIdentifier and its order *)

\* a TypeIdentifier: an IdWrapper around a uint16_t
TypeIdentifier(n) == [ id_ |-> n ]

\* IdWrapper::underlyingId()
underlyingId(x) == x.id_

\* an order that takes equal ids for ordered
LessOrEqual(lhs, rhs) == underlyingId(lhs) <= underlyingId(rhs)

\* operator<(TypeIdentifier lhs, TypeIdentifier rhs)
Less(lhs, rhs) == underlyingId(lhs) < underlyingId(rhs)

\* nothing to compare
NoCmp == [ a |-> TypeIdentifier(0), b |-> TypeIdentifier(0),
           c |-> TypeIdentifier(0), lt |-> << >> ]

\* the operands of the comparisons
Operands == { "a", "b", "c" }

\* the program compares the three identifiers with operator<, each with each
Compare ==
    /\ Running
    /\ cmp.lt = << >>
    /\ cmp' = [cmp EXCEPT !.lt =
                  [ xy \in Operands \X Operands |-> Less(cmp[xy[1]], cmp[xy[2]]) ]]
    /\ UNCHANGED << idVars, recVars, opVars >>

-----------------------------------------------------------------------------
(* The identifiers alone: threads that call Get<T>() of any type *)

\* the preallocated types whose first Get<T>() the history keeps
AskedTypes == { "uint8_t", "Tensor", "_CaffeHighestPreallocatedTypeId" }

InitIds ==
    /\ counter = HighestPreallocatedId + 1
    /\ aborted = FALSE
    /\ type_id = [t \in DynTypes |-> [guard |-> "uninit", id |-> NoId]]
    /\ pc = [p \in Procs |-> "idle"]
    /\ arg = [p \in Procs |-> "none"]
    /\ new_value = [p \in Procs |-> NoId]
    /\ ret = [p \in Procs |-> NoId]
    /\ lastGet = [type |-> "none", id |-> NoId]
    /\ created = [t \in DynTypes |-> 0]
    /\ firstGet = [t \in DynTypes \cup AskedTypes |-> NoId]
    /\ init = [t \in {} |-> "zero"]
    /\ data = [t \in {} |-> ZeroData]
    /\ handle = [p \in Threads |-> "none"]
    /\ made = [p \in Threads |-> "none"]
    /\ src = << >>
    /\ dst = << >>
    /\ call = NoCall
    /\ cmp = NoCmp

NextIds ==
    \E p \in Threads :
        \/ \E t \in AskedTypes \cup DynTypes :
              \/ GetPreallocated(p, t)
              \/ GetCached(p, t)
              \/ GetFirst(p, t)
              \/ GetBlocked(p, t)
        \/ createTypeId(p)
        \/ GetPublish(p)
        \/ GetWake(p)

SpecIds == InitIds /\ [][NextIds]_vars

\* threads that call Get<T>() of every preallocated type, and of one
\* type registered with CAFFE_KNOWN_TYPE
NextPreallocated ==
    \E p \in Threads :
        \/ \E t \in PreallocatedTypes : GetPreallocated(p, t)
        \/ \E t \in { KnownTypeNames[1] } :
              \/ GetCached(p, t)
              \/ GetFirst(p, t)
              \/ GetBlocked(p, t)
        \/ createTypeId(p)
        \/ GetPublish(p)
        \/ GetWake(p)

SpecPreallocated == InitIds /\ [][NextPreallocated]_vars

-----------------------------------------------------------------------------
(* The identifiers when few are left: the program has registered so many
   other types with CAFFE_KNOWN_TYPE that the counter is at the end of the
   range *)

InitExhaust ==
    /\ counter \in (MaxUnderlyingId - 1)..(MaxUnderlyingId + 1)
    /\ aborted = FALSE
    /\ type_id = [t \in DynTypes |-> [guard |-> "uninit", id |-> NoId]]
    /\ pc = [p \in Procs |-> "idle"]
    /\ arg = [p \in Procs |-> "none"]
    /\ new_value = [p \in Procs |-> NoId]
    /\ ret = [p \in Procs |-> NoId]
    /\ lastGet = [type |-> "none", id |-> NoId]
    /\ created = [t \in DynTypes |-> 0]
    /\ firstGet = [t \in DynTypes \cup AskedTypes |-> NoId]
    /\ init = [t \in {} |-> "zero"]
    /\ data = [t \in {} |-> ZeroData]
    /\ handle = [p \in Threads |-> "none"]
    /\ made = [p \in Threads |-> "none"]
    /\ src = << >>
    /\ dst = << >>
    /\ call = NoCall
    /\ cmp = NoCmp

SpecExhaust == InitExhaust /\ [][NextIds]_vars

-----------------------------------------------------------------------------
(* The program: the loader initializes the records while threads call
   Make<T>(), the accessors and Get<T>() *)

Init ==
    /\ counter = HighestPreallocatedId + 1
    /\ aborted = FALSE
    /\ type_id = [t \in DynTypes |-> [guard |-> "uninit", id |-> NoId]]
    /\ pc = [p \in Procs |-> "idle"]
    /\ arg = [p \in Procs |-> "none"]
    /\ new_value = [p \in Procs |-> NoId]
    /\ ret = [p \in Procs |-> NoId]
    /\ lastGet = [type |-> "none", id |-> NoId]
    /\ created = [t \in DynTypes |-> 0]
    /\ firstGet = [t \in DynTypes |-> NoId]
    /\ init = [t \in RecTypes |-> "zero"]
    /\ data = [t \in RecTypes |-> ZeroData]
    /\ handle = [p \in Threads |-> "none"]
    /\ made = [p \in Threads |-> "none"]
    /\ src = << >>
    /\ dst = << >>
    /\ call = NoCall
    /\ cmp = NoCmp

Next ==
    \/ \E t \in RecTypes : StaticInitBegin(t)
    \/ InitGetPreallocated
    \/ StaticInitEnd
    \/ \E p \in Procs :
          \/ \E t \in RecTypes :
                \/ GetCached(p, t)
                \/ GetFirst(p, t)
                \/ GetBlocked(p, t)
          \/ createTypeId(p)
          \/ GetPublish(p)
          \/ GetWake(p)
    \/ \E p \in Threads :
          \/ \E t \in RecTypes : CallMake(p, t)
          \/ CallTypeMeta(p)

Spec == Init /\ [][Next]_vars

\* the steps of a process that is inside a call or inside an initializer:
\* a thread that has started Get<T>() runs on, a thread that waits for the
\* static of T is woken once it is initialized, and the loader finishes the
\* initializer it has started
Continue(p) ==
    \/ createTypeId(p)
    \/ GetPublish(p)
    \/ GetWake(p)
    \/ /\ p = Loader
       /\ \/ InitGetPreallocated
          \/ StaticInitEnd
          \/ GetCached(p, arg[p])
          \/ GetFirst(p, arg[p])
          \/ GetBlocked(p, arg[p])

\* the calls that can wait or be waited for: the loader initializes the
\* records, every process calls Get<T>(), and the threads call Make<T>()
\* for the first type registered with CAFFE_KNOWN_TYPE
NextCalls ==
    \/ \E t \in RecTypes : StaticInitBegin(t)
    \/ InitGetPreallocated
    \/ StaticInitEnd
    \/ \E p \in Procs :
          \/ \E t \in RecTypes :
                \/ GetCached(p, t)
                \/ GetFirst(p, t)
                \/ GetBlocked(p, t)
          \/ createTypeId(p)
          \/ GetPublish(p)
          \/ GetWake(p)
    \/ \E p \in Threads : CallMake(p, KnownTypeNames[1])

\* these calls under a fair scheduler: no process that can continue is
\* left aside forever
FairSpec ==
    Init /\ [][NextCalls]_vars /\ \A p \in Procs : WF_vars(Continue(p))

-----------------------------------------------------------------------------
(* The functions of the records: one caller that makes TypeMeta objects,
   reads their function pointers and calls them on its arrays, while the
   loader initializes the records *)

\* the types whose records this caller uses
OpTypes == { "uint8_t", "std::string", "std::unique_ptr<std::mutex>", "DynB" }

InitOps ==
    /\ counter = HighestPreallocatedId + 1
    /\ aborted = FALSE
    /\ type_id = [t \in DynTypes |-> [guard |-> "uninit", id |-> NoId]]
    /\ pc = [p \in Procs |-> "idle"]
    /\ arg = [p \in Procs |-> "none"]
    /\ new_value = [p \in Procs |-> NoId]
    /\ ret = [p \in Procs |-> NoId]
    /\ lastGet = [type |-> "none", id |-> NoId]
    /\ created = [t \in DynTypes |-> 0]
    /\ firstGet = [t \in DynTypes |-> NoId]
    /\ init = [t \in OpTypes |-> "zero"]
    /\ data = [t \in OpTypes |-> ZeroData]
    /\ handle = [p \in Threads |-> "none"]
    /\ made = [p \in Threads |-> "none"]
    /\ src \in [1..MaxElems -> ElemValues]
    /\ dst = [j \in 1..MaxElems |-> 0]
    /\ call = NoCall
    /\ cmp = NoCmp

NextOps ==
    \/ \E t \in OpTypes : StaticInitBegin(t)
    \/ InitGetPreallocated
    \/ GetFirst(Loader, arg[Loader])
    \/ createTypeId(Loader)
    \/ GetPublish(Loader)
    \/ StaticInitEnd
    \/ \E t \in OpTypes : CallMake(Caller, t)
    \/ CallTypeMeta(Caller)
    \/ \E k \in 0..MaxElems :
          \/ CopyNull(Caller, k)
          \/ CopyNotAllowed(Caller, k)
          \/ CopyEnter(Caller, k)
    \/ CopyLoop(Caller)
    \/ CopyReturn(Caller)

SpecOps == InitOps /\ [][NextOps]_vars

-----------------------------------------------------------------------------
(* The functions of the records: one caller that makes TypeMeta objects,
   reads their ctor and dtor pointers and calls them on its array, and calls
   copy where it is the placeholder, while the loader initializes the
   records *)

\* the types whose records this caller uses
CtorTypes == { "uint8_t", "std::string", "DynA", "DynB" }

InitCtor ==
    /\ counter = HighestPreallocatedId + 1
    /\ aborted = FALSE
    /\ type_id = [t \in DynTypes |-> [guard |-> "uninit", id |-> NoId]]
    /\ pc = [p \in Procs |-> "idle"]
    /\ arg = [p \in Procs |-> "none"]
    /\ new_value = [p \in Procs |-> NoId]
    /\ ret = [p \in Procs |-> NoId]
    /\ lastGet = [type |-> "none", id |-> NoId]
    /\ created = [t \in DynTypes |-> 0]
    /\ firstGet = [t \in DynTypes |-> NoId]
    /\ init = [t \in CtorTypes |-> "zero"]
    /\ data = [t \in CtorTypes |-> ZeroData]
    /\ handle = [p \in Threads |-> "none"]
    /\ made = [p \in Threads |-> "none"]
    /\ src = RawStorage
    /\ dst = RawStorage
    /\ call = NoCall
    /\ cmp = NoCmp

NextCtor ==
    \/ \E t \in CtorTypes : StaticInitBegin(t)
    \/ InitGetPreallocated
    \/ GetFirst(Loader, arg[Loader])
    \/ createTypeId(Loader)
    \/ GetPublish(Loader)
    \/ StaticInitEnd
    \/ \E t \in CtorTypes : CallMake(Caller, t)
    \/ CallTypeMeta(Caller)
    \/ \E k \in 0..MaxElems :
          \/ \E m \in { "ctor_", "dtor_" } : CallNull(Caller, m, k)
          \/ CtorNotDefault(Caller, k)
          \/ Ctor(Caller, k)
          \/ Dtor(Caller, k)
          \/ CopyNotAllowed(Caller, k)

SpecCtor == InitCtor /\ [][NextCtor]_vars

-----------------------------------------------------------------------------
(* The order of the identifiers: the program holds three identifiers, each
   a preallocated id, the id of the dummy TypeMeta, an id from the counter
   or the last id of the range, and compares them *)

\* the identifiers the program holds
OrderedIds ==
    { TypeIdentifier(n) :
        n \in { PreallocatedId(t) : t \in AskedTypes } \cup { UninitializedId }
              \cup (HighestPreallocatedId + 1)..(HighestPreallocatedId + NumDynTypes)
              \cup { MaxUnderlyingId } }

InitOrder ==
    /\ counter = HighestPreallocatedId + 1 + NumDynTypes
    /\ aborted = FALSE
    /\ type_id = [t \in DynTypes |-> [guard |-> "uninit", id |-> NoId]]
    /\ pc = [p \in Procs |-> "idle"]
    /\ arg = [p \in Procs |-> "none"]
    /\ new_value = [p \in Procs |-> NoId]
    /\ ret = [p \in Procs |-> NoId]
    /\ lastGet = [type |-> "none", id |-> NoId]
    /\ created = [t \in DynTypes |-> 0]
    /\ firstGet = [t \in DynTypes |-> NoId]
    /\ init = [t \in {} |-> "zero"]
    /\ data = [t \in {} |-> ZeroData]
    /\ handle = [p \in Threads |-> "none"]
    /\ made = [p \in Threads |-> "none"]
    /\ src = << >>
    /\ dst = << >>
    /\ call = NoCall
    /\ cmp \in [ a : OrderedIds, b : OrderedIds, c : OrderedIds, lt : { << >> } ]

NextOrder == Compare

SpecOrder == InitOrder /\ [][NextOrder]_vars

-----------------------------------------------------------------------------
(* The identifier allocator *)

\* the ids the claims document for the preallocated types
DocumentedId ==
    { <<"uint8_t", 0>>, <<"int8_t", 1>>, <<"int16_t", 2>>, <<"int", 3>>,
      <<"int64_t", 4>>, <<"at::Half", 5>>, <<"float", 6>>, <<"double", 7>>,
      <<"at::ComplexHalf", 8>>, <<"std::complex<float>", 9>>,
      <<"std::complex<double>", 10>>, <<"Tensor", 12>>,
      <<"_CaffeHighestPreallocatedTypeId", 27>> }

\* C1: every call of Get<T>() returns what the first call for T returned,
\* and the calls for two distinct types, preallocated or registered with
\* CAFFE_KNOWN_TYPE, return different values.
C1_GetSameForTypeDistinctAcrossTypes ==
    /\ \A p \in Threads :
          (pc[p] = "idle" /\ arg[p] \in DynTypes /\ ret[p] # NoId)
              => ret[p] = firstGet[arg[p]]
    /\ lastGet.type \in DOMAIN firstGet => lastGet.id = firstGet[lastGet.type]
    /\ \A t1, t2 \in DOMAIN firstGet :
          (t1 # t2 /\ firstGet[t1] # NoId /\ firstGet[t2] # NoId)
              => firstGet[t1] # firstGet[t2]
    /\ \A p \in Threads :
          (pc[p] = "idle" /\ arg[p] \in DynTypes /\ ret[p] # NoId
             /\ lastGet.type # "none")
              => ret[p] # lastGet.id

\* two threads have the value of Get<T>() for one CAFFE_KNOWN_TYPE type, the
\* other such type and a preallocated type have been asked for too
C1_Witness ==
    /\ \A p \in Threads : pc[p] = "idle" /\ arg[p] = "DynA" /\ ret[p] # NoId
    /\ firstGet["DynB"] # NoId
    /\ firstGet["uint8_t"] # NoId
    /\ lastGet.type = "Tensor"

\* C3: when threads register different types at the same time, no two
\* distinct types receive the same id, whatever the order of the counter's
\* increments: neither the ids createTypeId hands out, nor the ids the
\* statics hold, nor the ids Get<T>() returns.
C3_ConcurrentRegistrationsDistinct ==
    /\ \A p, q \in Procs :
          (p # q /\ new_value[p] # NoId /\ new_value[q] # NoId)
              => new_value[p] # new_value[q]
    /\ \A t1, t2 \in DynTypes :
          (t1 # t2 /\ type_id[t1].guard = "done" /\ type_id[t2].guard = "done")
              => type_id[t1].id # type_id[t2].id
    /\ \A t1, t2 \in DynTypes :
          (t1 # t2 /\ firstGet[t1] # NoId /\ firstGet[t2] # NoId)
              => firstGet[t1] # firstGet[t2]
    /\ \A p, q \in Threads :
          (pc[p] = "idle" /\ pc[q] = "idle" /\ arg[p] \in DynTypes
             /\ arg[q] \in DynTypes /\ arg[p] # arg[q]
             /\ ret[p] # NoId /\ ret[q] # NoId)
              => ret[p] # ret[q]

\* two threads are each past createTypeId and before the store to the
\* static, for two different types
C3_Witness ==
    \E p, q \in Threads :
        /\ p # q
        /\ pc[p] = "publish" /\ pc[q] = "publish"
        /\ arg[p] # arg[q]

\* C5: every dynamically allocated id is greater than 27, the id of
\* _CaffeHighestPreallocatedTypeId, and so is the id of no preallocated type.
C5_DynamicIdsAboveReserved ==
    \A v \in { type_id[t].id : t \in DynTypes } \cup
             { new_value[p] : p \in Procs } \cup
             { firstGet[t] : t \in DynTypes } :
        v # NoId =>
            /\ v > 27
            /\ \A r \in PreallocatedTypes : v # PreallocatedId(r)

\* every CAFFE_KNOWN_TYPE type has its id
C5_Witness ==
    \A t \in DynTypes : type_id[t].guard = "done" /\ firstGet[t] # NoId

\* C6: Get<T>() of a preallocated type returns its fixed id in every
\* reachable state, whatever was called or registered before (the documented
\* ones: uint8_t 0, ..., std::complex<double> 10, Tensor 12,
\* _CaffeHighestPreallocatedTypeId 27; every one an id of 0..27 of its own),
\* and such a call leaves the counter and the statics of the other types as
\* they are.
C6_PreallocatedIdsFixed ==
    /\ [](/\ \A d \in DocumentedId :
                /\ PreallocatedId(d[1]) = d[2]
                /\ lastGet.type = d[1] => lastGet.id = d[2]
          /\ \A t \in PreallocatedTypes :
                /\ PreallocatedId(t) \in 0..27
                /\ lastGet.type = t => lastGet.id = PreallocatedId(t)
                /\ \A u \in PreallocatedTypes :
                      u # t => PreallocatedId(u) # PreallocatedId(t)
          /\ \A t \in AskedTypes :
                firstGet[t] # NoId => firstGet[t] = PreallocatedId(t))
    /\ [][lastGet' # lastGet =>
              /\ counter' = counter
              /\ type_id' = type_id
              /\ created' = created]_vars

\* Tensor is asked for after a CAFFE_KNOWN_TYPE type got its id, uint8_t
\* was asked for before
C6_Witness ==
    /\ lastGet = [type |-> "Tensor", id |-> 12]
    /\ firstGet["uint8_t"] = 0
    /\ firstGet["Tensor"] = 12
    /\ created[KnownTypeNames[1]] = 1
    /\ counter = 29

-----------------------------------------------------------------------------
(* The records and the handles *)

\* the id Get<T>() returns for T (NoId while a CAFFE_KNOWN_TYPE type has none)
IdOf(t) == IF t \in PreallocatedTypes THEN PreallocatedId(t) ELSE type_id[t].id

\* C2: when threads make the first Make<T>() calls for a CAFFE_KNOWN_TYPE
\* type T at the same time, there is one record of T, createTypeId is called
\* once for T, and every caller observes the same record and the same id:
\* what a caller reads through its handle is the same at all times.
C2_FirstMakeOneRecordOneId ==
    [][\A p \in Threads :
          (made[p] \in DynTypes /\ made'[p] = made[p]) =>
              /\ handle'[p] = handle[p]
              /\ TypeMetaEq(handle[p], Make(made[p]))
              /\ created'[made[p]] <= 1
              /\ id(handle[p])' = id(handle[p])]_vars

\* C4: no partially initialized record is observable: whenever a thread
\* holds the TypeMeta that Make<T>() returned, every member of the record it
\* points to has its final value.
C4_NoPartialRecordObservable ==
    \A p \in Threads :
        made[p] \in RecTypes =>
            \A f \in Fields :
                Deref(handle[p], f) = { TypeMetaData(made[p], IdOf(made[p]))[f] }

\* C7: the TypeMeta objects of two distinct types are unequal, and any two
\* Make<T>() of one type are equal, whenever they were made.
C7_MakeEqualIffSameType ==
    /\ \A p, q \in Threads :
          (made[p] # "none" /\ made[q] # "none") =>
              (TypeMetaEq(handle[p], handle[q]) <=> made[p] = made[q])
    /\ \A p \in Threads : \A t \in RecTypes :
          made[p] # "none" =>
              (TypeMetaEq(handle[p], Make(t)) <=> made[p] = t)

\* two threads hold the TypeMeta of one type, made while its record was not
\* initialized yet; the records of the other types are initialized
C7_Witness ==
    /\ \A p \in Threads : made[p] = "DynA"
    /\ init["DynA"] = "zero"
    /\ init["DynB"] = "built"
    /\ init["uint8_t"] = "built"

\* C8: a default-constructed TypeMeta has itemsize 0, null ctor, copy and
\* dtor, the id 11 and the name of the dummy, and is unequal to Make<T>()
\* of every type.
C8_DefaultTypeMeta ==
    \A p \in Threads :
        (handle[p] # "none" /\ made[p] = "none") =>
            /\ itemsize(handle[p]) = { 0 }
            /\ ctor(handle[p]) = { NullFn }
            /\ copy(handle[p]) = { NullFn }
            /\ dtor(handle[p]) = { NullFn }
            /\ id(handle[p]) = { 11 }
            /\ \A t \in RecTypes : ~TypeMetaEq(handle[p], Make(t))
            /\ \A q \in Threads :
                  made[q] # "none" => ~TypeMetaEq(handle[p], handle[q])

\* one thread holds a default-constructed TypeMeta, the other the TypeMeta
\* of uint8_t, whose record is not initialized yet: itemsize 0, null
\* pointers and id 0
C8_Witness ==
    \E p, q \in Threads :
        /\ handle[p] = "uninitialized_" /\ made[p] = "none"
        /\ made[q] = "uint8_t"
        /\ init["uint8_t"] = "zero"

\* C9: no type, preallocated or registered with CAFFE_KNOWN_TYPE, has the
\* id 11: id() returns 11 only for a TypeMeta that points to the dummy
\* record.
C9_ElevenOnlyUninitialized ==
    /\ \A t \in PreallocatedTypes : PreallocatedId(t) # 11
    /\ \A t \in DynTypes : type_id[t].id # 11
    /\ \A p \in Procs : new_value[p] # 11 /\ ret[p] # 11
    /\ \A t \in RecTypes : 11 \notin id(Make(t))
    /\ \A p \in Threads :
          (handle[p] # "none" /\ 11 \in id(handle[p]))
              => handle[p] = "uninitialized_"

\* a thread holds the dummy TypeMeta while every record is initialized and
\* every CAFFE_KNOWN_TYPE type has its id
C9_Witness ==
    /\ \E p \in Threads : handle[p] = "uninitialized_" /\ id(handle[p]) = { 11 }
    /\ \A t \in RecTypes : init[t] = "built"
    /\ \A t \in DynTypes \cap RecTypes : type_id[t].guard = "done"

-----------------------------------------------------------------------------
(* The functions of the records *)

\* the call of a copy function is over
CallOver == call.outcome \in { "returned", "thrown", "crashed" }

\* the elements below index k are the source's, the others are as they were
CopiedBelow(k) ==
    /\ src = call.src0
    /\ \A j \in 1..MaxElems :
          dst[j] = IF j <= k THEN call.src0[j] ELSE call.dst0[j]

\* C10, as stated: invoking the copy function of the initialized record of a
\* type that is not copy-assignable raises the failure naming the type, and
\* invoking the one of the initialized record of a copy-assignable type with
\* n elements returns with dst[i] = src[i] for every i < n, src and the
\* elements at index >= n unchanged.
C10_CopyOfEveryRecord ==
    (CallOver /\ call.member = "copy_" /\ call.built) =>
        IF IsCopyAssignable(call.of)
        THEN call.outcome = "returned" /\ call.i = call.n /\ CopiedBelow(call.n)
        ELSE call.outcome = "thrown" /\ call.fn.T = call.of

\* C10, amended: the record of a fundamental or pointer type holds a null
\* copy pointer, which cannot be invoked.  A copy function read from a
\* record as a non-null pointer belongs to the record's type T, which is
\* neither fundamental nor a pointer: if T is not copy-assignable, invoking
\* it raises the failure naming T and changes no element; if T is
\* copy-assignable, invoking it with n elements assigns dst[i] = src[i] in
\* index order (after i turns exactly the elements below i are assigned),
\* returns after n turns, for n = 0, 1 and n > 1, and leaves src and the
\* elements at index >= n unchanged.
C10_CopyOfNonNullPointer ==
    /\ \A t \in OpTypes :
          (IsFundamentalOrPointer(t) /\ init[t] = "built")
              => copy(t) = { NullFn }
    /\ (call.member = "copy_" /\ call.built /\ IsFundamentalOrPointer(call.of))
          => call.fn = NullFn
    /\ (call.member = "copy_" /\ call.fn # NullFn) =>
          /\ call.of \in OpTypes
          /\ ~IsFundamentalOrPointer(call.of)
          /\ call.fn.T = call.of
          /\ IF IsCopyAssignable(call.of)
             THEN /\ call.fn.fn = "_Copy"
                  /\ call.outcome \in { "running", "returned" }
                  /\ call.i <= call.n
                  /\ call.outcome = "returned" => call.i = call.n
                  /\ CopiedBelow(call.i)
             ELSE /\ call.fn.fn = "_CopyNotAllowed"
                  /\ call.outcome = "thrown"
                  /\ src = call.src0
                  /\ dst = call.dst0

\* a copy of more than one element has returned, the destination differs
\* from what it was, and the record it came from was initialized
C10_Witness ==
    /\ call.outcome = "returned"
    /\ call.fn.fn = "_Copy"
    /\ call.built
    /\ call.n > 1
    /\ dst # call.dst0

\* C11, as stated: invoking the construct function of the initialized
\* record of a type that is not default-constructible raises the failure, and
\* invoking the one of the initialized record of a default-constructible
\* type with n elements returns with exactly the elements at indices 0..n-1
\* value-initialized.
C11_CtorOfEveryRecord ==
    (CallOver /\ call.member = "ctor_" /\ call.built) =>
        IF IsDefaultConstructible(call.of)
        THEN /\ call.outcome = "returned"
             /\ \A j \in 1..MaxElems :
                   dst[j] = IF j <= call.n THEN ValueInitialized
                            ELSE call.dst0[j]
        ELSE call.outcome = "thrown"

\* C11, amended: the record of a fundamental or pointer type holds a null
\* construct pointer, which cannot be invoked.  A construct function read
\* from a record as a non-null pointer belongs to the record's type T, which
\* is neither fundamental nor a pointer: if T is not default-constructible,
\* invoking it raises the failure naming T and changes no element; if T is
\* default-constructible, invoking it with n elements, for n = 0, 1 and
\* n > 1, default-initializes exactly the elements at indices 0..n-1: each
\* gets its initial value where T's default constructor is not trivial and
\* an indeterminate value (what the storage held) where it is trivial.
C11_CtorOfNonNullPointer ==
    /\ \A t \in CtorTypes :
          (IsFundamentalOrPointer(t) /\ init[t] = "built")
              => ctor(t) = { NullFn }
    /\ (call.member = "ctor_" /\ call.built /\ IsFundamentalOrPointer(call.of))
          => call.fn = NullFn
    /\ (call.member = "ctor_" /\ call.fn # NullFn) =>
          /\ call.of \in CtorTypes
          /\ ~IsFundamentalOrPointer(call.of)
          /\ call.fn.T = call.of
          /\ IF IsDefaultConstructible(call.of)
             THEN /\ call.fn.fn = "_Ctor"
                  /\ call.outcome = "returned"
                  /\ \A j \in 1..MaxElems :
                        IF j > call.n THEN dst[j] = call.dst0[j]
                        ELSE IF IsTriviallyDefaultConstructible(call.of)
                          THEN dst[j] \in { call.dst0[j], ValueInitialized }
                        ELSE dst[j] = ValueInitialized
             ELSE /\ call.fn.fn = "_CtorNotDefault"
                  /\ call.outcome = "thrown"
                  /\ dst = call.dst0

\* the constructor of an initialized record has constructed more than one
\* element, and not all the elements of the array
C11_Witness ==
    /\ call.member = "ctor_"
    /\ call.outcome = "returned"
    /\ call.built
    /\ ~IsTriviallyDefaultConstructible(call.of)
    /\ call.n > 1
    /\ dst # call.dst0

-----------------------------------------------------------------------------
(* The end of the identifier range *)

\* the ids that createTypeId may hand out
DynamicIds == (HighestPreallocatedId + 1)..MaxUnderlyingId

\* C12: an allocation that would push the counter beyond the range of the
\* 16-bit identifier is fatal: the counter never wraps around (it stays above
\* every id handed out and at most one past the range), the process is gone
\* only if the ids are exhausted, and every id handed out is in the dynamic
\* range, so none is a reserved id or the sentinel, and no two types hold
\* the same id.
C12_ExhaustionIsFatal ==
    /\ counter <= MaxUnderlyingId + 1
    /\ aborted => Exhausted(counter)
    /\ \A p \in Threads :
          new_value[p] # NoId =>
              new_value[p] \in DynamicIds /\ new_value[p] < counter
    /\ \A t \in DynTypes :
          Cached(t) # NoId =>
              /\ Cached(t) \in DynamicIds
              /\ Cached(t) < counter
              /\ Cached(t) # UninitializedId
              /\ \A u \in PreallocatedTypes : Cached(t) # PreallocatedId(u)
              /\ \A u \in DynTypes \ { t } : Cached(t) # Cached(u)

\* the last id of the range has been handed out and the allocation after it
\* was fatal
C12_Witness ==
    /\ aborted
    /\ \E t \in DynTypes : Cached(t) = MaxUnderlyingId

-----------------------------------------------------------------------------
(* The life of a record *)

\* the steps the initialization of a record can take
InitSteps == { << "zero", "building" >>, << "building", "built" >> }

\* C13: each type goes from unregistered to registered once.  The
\* initialization of its record only moves forward; once the record is
\* constructed it stays constructed, is not built again, and every member
\* (size, the three function pointers, id, name) keeps the value it had when
\* the construction finished, as does every value an accessor returns; the
\* id cached for a type registered with CAFFE_KNOWN_TYPE never changes.
C13_OneShotRegistration ==
    [][ /\ \A t \in RecTypes :
              /\ init'[t] # init[t] => << init[t], init'[t] >> \in InitSteps
              /\ init[t] = "built" =>
                    /\ init'[t] = "built"
                    /\ data'[t] = data[t]
                    /\ \A f \in Fields : Deref(t, f)' = { data[t][f] }
        /\ \A t \in DynTypes :
              Guard(t) = "done" => type_id'[t] = type_id[t]
      ]_vars

\* every record is constructed, that of a type registered with
\* CAFFE_KNOWN_TYPE was constructed before the others and a thread holds a
\* TypeMeta of it
C13_Witness ==
    /\ \A t \in RecTypes : init[t] = "built"
    /\ \E p \in Threads : made[p] \in DynTypes /\ handle[p] = Make(made[p])
    /\ \E t \in RecTypes \cap DynTypes :
          \E u \in RecTypes : data[t]["id_"] < data[u]["id_"]

-----------------------------------------------------------------------------
(* The failures *)

\* the placeholders that throw through _ThrowRuntimeTypeLogicError
StandIns == { "_CtorNotDefault", "_CopyNotAllowed" }

\* the record of a type that is neither fundamental nor a pointer, as the
\* claim describes it: built whatever T can do, with a placeholder where T
\* lacks the operation
RecordWithStandIns(t) ==
    /\ data[t]["ctor_"] =
          Fn(IF IsDefaultConstructible(t) THEN "_Ctor" ELSE "_CtorNotDefault", t)
    /\ data[t]["copy_"] =
          Fn(IF IsCopyAssignable(t) THEN "_Copy" ELSE "_CopyNotAllowed", t)
    /\ data[t]["dtor_"] = Fn("_Dtor", t)

\* C14: building a record never fails for want of a capability: Make<T>()
\* can always be called and returns, the initializer of the record of every
\* type that is neither fundamental nor a pointer completes with a
\* placeholder where T is not default-constructible or not copy-assignable,
\* and the process is not stopped by it.  The failure is raised only by the
\* invocation of a placeholder construct or copy function (for any n), such
\* an invocation leaves the destination, the source, the id counter, the
\* cached ids and all records unchanged, and the destroy function never
\* raises the failure.
C14_FailureOnlyOnInvocation ==
    /\ [] /\ \A t \in CtorTypes :
                (pc[Caller] = "idle" /\ Running) => ENABLED CallMake(Caller, t)
          /\ \A t \in CtorTypes :
                (init[t] = "built" /\ ~IsFundamentalOrPointer(t))
                    => RecordWithStandIns(t)
          /\ aborted => call.outcome = "crashed"
          /\ call.outcome = "thrown" =>
                /\ call.member \in { "ctor_", "copy_" }
                /\ call.fn.fn \in StandIns
                /\ call.fn.T = call.of
          /\ call.member = "dtor_" => call.outcome # "thrown"
    /\ [][ (call' # call /\ call'.outcome = "thrown") =>
              /\ call'.n \in 0..MaxElems
              /\ dst' = dst
              /\ src' = src
              /\ counter' = counter
              /\ type_id' = type_id
              /\ data' = data
              /\ init' = init
              /\ aborted' = aborted
         ]_vars

\* the placeholder constructor of the initialized record of a type that is
\* neither default-constructible nor copy-assignable has been invoked for no
\* element, after the caller had constructed elements of another type
C14_Witness ==
    /\ call.outcome = "thrown"
    /\ call.member = "ctor_"
    /\ call.n = 0
    /\ call.built
    /\ ~IsCopyAssignable(call.of)
    /\ dst # RawStorage

-----------------------------------------------------------------------------
(* The counter *)

\* the types createTypeId has been called for
Allocated == { t \in DynTypes : created[t] > 0 }

\* the ids createTypeId has handed out: those still on their way to the
\* static of their type and those cached there
Issued ==
    { v \in { new_value[p] : p \in Procs } \cup
            { Cached(t) : t \in DynTypes } : v # NoId }

\* C15: the counter is seeded so that the first id allocated is 28, one past
\* the largest preallocated id; it advances once per type registered with
\* CAFFE_KNOWN_TYPE, at the first Get<T>() of that type, and later calls
\* read the cached id without advancing it: after k types have been
\* allocated an id the counter is 28 + k and the ids handed out are exactly
\* 28..27+k, one per type.
C15_CounterSeededAndDense ==
    /\ HighestPreallocatedId = 27
    /\ \A t \in DynTypes : created[t] <= 1
    /\ counter = 28 + Cardinality(Allocated)
    /\ Issued = 28..(27 + Cardinality(Allocated))
    /\ \A t \in DynTypes : Guard(t) = "done" => Cached(t) \in Issued
    /\ \A t \in DynTypes :
          (Guard(t) = "done" /\ firstGet[t] # NoId) => firstGet[t] = Cached(t)

\* every type registered with CAFFE_KNOWN_TYPE has its id, the counter has
\* advanced once for each, and every thread has since read a cached id
C15_Witness ==
    /\ \A t \in DynTypes : Guard(t) = "done"
    /\ counter = 28 + NumDynTypes
    /\ \A p \in Threads :
          pc[p] = "idle" /\ arg[p] \in DynTypes /\ ret[p] = Cached(arg[p])
    /\ \E p, q \in Threads : p # q /\ arg[p] = arg[q]

-----------------------------------------------------------------------------
(* The two initializers *)

\* C16: the type alone selects one of two initializers.  The constructed
\* record of a fundamental or pointer type has null ctor, copy and dtor
\* pointers; that of any other type has three non-null pointers: ctor is
\* _Ctor<T> or _CtorNotDefault<T>, copy is _Copy<T> or _CopyNotAllowed<T>,
\* dtor is always _Dtor<T>.  In both the size is sizeof(T) and the id is
\* what Get<T>() returns, and the accessors of a TypeMeta of the record
\* return these values.
C16_TwoInitializers ==
    \A t \in RecTypes :
        init[t] = "built" =>
            /\ IF IsFundamentalOrPointer(t)
               THEN /\ ctor(Make(t)) = { NullFn }
                    /\ copy(Make(t)) = { NullFn }
                    /\ dtor(Make(t)) = { NullFn }
               ELSE /\ NullFn \notin ctor(Make(t)) \cup copy(Make(t))
                                        \cup dtor(Make(t))
                    /\ ctor(Make(t)) \subseteq
                          { Fn("_Ctor", t), Fn("_CtorNotDefault", t) }
                    /\ copy(Make(t)) \subseteq
                          { Fn("_Copy", t), Fn("_CopyNotAllowed", t) }
                    /\ dtor(Make(t)) = { Fn("_Dtor", t) }
            /\ itemsize(Make(t)) = { SizeOf(t) }
            /\ id(Make(t)) = { IdOf(t) }
            /\ IdOf(t) # NoId

\* the record of a fundamental type and the records of two classes are
\* constructed, one of the classes having got its id before its record was
\* initialized
C16_Witness ==
    /\ \A t \in RecTypes : init[t] = "built"
    /\ \E t \in RecTypes : IsFundamentalOrPointer(t)
    /\ \E t \in RecTypes : ~IsDefaultConstructible(t)
    /\ \E t \in RecTypes \cap DynTypes : firstGet[t] # NoId
    /\ \E p \in Threads : handle[p] \in RecTypes

-----------------------------------------------------------------------------
(* Match *)

\* C17: for every TypeMeta h and every type T with a record, h.Match<T>()
\* is true exactly if h points to the record Make<T>() points to: a TypeMeta
\* made by Make<T1>() matches T1 and no other type, and a default-constructed
\* TypeMeta matches no type.
C17_MatchIffSameRecord ==
    /\ \A t \in RecTypes : ~Match(DefaultData, t)
    /\ \A t1, t2 \in RecTypes : Match(Make(t1), t2) <=> (t1 = t2)
    /\ \A p \in Threads :
          handle[p] # "none" =>
              \A t \in RecTypes :
                  /\ Match(handle[p], t) <=> TypeMetaEq(handle[p], Make(t))
                  /\ Match(handle[p], t) <=> (made[p] = t)

\* one thread holds a default-constructed TypeMeta, another one made by
\* Make<T>() for a type whose record is being initialized while the record
\* of another type is constructed
C17_Witness ==
    \E p, q \in Threads :
        /\ handle[p] = DefaultData
        /\ made[q] \in RecTypes
        /\ init[made[q]] = "building"
        /\ \E t \in RecTypes \ { made[q] } : init[t] = "built"

-----------------------------------------------------------------------------
(* The order of the identifiers *)

\* the program has compared its identifiers
Compared == cmp.lt # << >>

\* C18: operator< on identifiers agrees with the numeric order of the
\* underlying values and is a strict weak ordering: a < b iff
\* value(a) < value(b); it is irreflexive, asymmetric and transitive, and
\* two identifiers are unordered in both directions iff they are equal.
C18_StrictWeakOrdering ==
    Compared =>
        /\ \A x, y \in Operands :
              /\ cmp.lt[<< x, y >>] <=>
                    (underlyingId(cmp[x]) < underlyingId(cmp[y]))
              /\ cmp.lt[<< x, y >>] => ~cmp.lt[<< y, x >>]
              /\ (~cmp.lt[<< x, y >>] /\ ~cmp.lt[<< y, x >>]) <=> (cmp[x] = cmp[y])
        /\ \A x \in Operands : ~cmp.lt[<< x, x >>]
        /\ \A x, y, z \in Operands :
              (cmp.lt[<< x, y >>] /\ cmp.lt[<< y, z >>]) => cmp.lt[<< x, z >>]

\* three identifiers have been compared: a dynamic one above a preallocated
\* one, and one equal to another
C18_Witness ==
    /\ Compared
    /\ cmp.lt[<< "a", "b" >>]
    /\ underlyingId(cmp.a) <= HighestPreallocatedId
    /\ underlyingId(cmp.b) > HighestPreallocatedId
    /\ cmp.c = cmp.b

-----------------------------------------------------------------------------
(* Termination *)

\* C19: under fair scheduling every call returns.  Make<T>() and TypeMeta()
\* return at once; a process inside Get<T>() or inside the initializer of a
\* record (allocating the id, publishing it, or waiting for the static of T
\* that another process initializes) is eventually outside again, whatever
\* the interleaving of the first calls for the same or for different types.
C19_EveryCallReturns ==
    \A p \in Procs : (pc[p] # "idle") ~> (pc[p] = "idle")

\* a thread and the loader wait for the static of the same type, which a
\* third process initializes
C19_Witness ==
    \E p \in Threads :
        /\ pc[p] = "wait"
        /\ pc[Loader] = "wait"
        /\ arg[p] = arg[Loader]
        /\ \E q \in Threads \ { p } : pc[q] \in { "create", "publish" }

-----------------------------------------------------------------------------
(* Equality of TypeMeta objects and of their ids *)

\* C20: equality of TypeMeta objects and equality of their ids agree: for
\* the TypeMeta objects a and b of any two threads, made by Make<T>() or
\* default-constructed, a == b exactly if a.id() == b.id(), whatever the
\* calls of id() return; the ids stored in the records and in the dummy
\* record are pairwise different.
C20_EqualIffSameId ==
    \A p, q \in Threads :
        (handle[p] # "none" /\ handle[q] # "none") =>
            \A x \in id(handle[p]) : \A y \in id(handle[q]) :
                TypeMetaEq(handle[p], handle[q]) <=> (x = y)

=============================================================================
